---- MODULE Spec2Model ----
(***************************************************************************)
(* Model of the axum web lab server (src/src/server.rs): the fixed         *)
(* language catalog, the request extractors (Path<u32>,                    *)
(* Query<HashMap<String, String>>, Query<LanguagesFilter>), the handlers   *)
(* of every route and the partition held in AppState.                      *)
(*                                                                         *)
(* A u32 is kept at its full width as two 16-bit limbs <<hi, lo>>, so that *)
(* parsing and comparing values up to 4294967295 stay exact.  Query        *)
(* string values are sequences of one-character strings; rendered text     *)
(* (headlines) is a string.                                                *)
(***************************************************************************)
EXTENDS Integers, Sequences, FiniteSets, TLC

VARIABLES app_state, request, extracted, response

vars == <<app_state, request, extracted, response>>

(***************************************************************************)
(* Bounds of the model.                                                    *)
(***************************************************************************)
\* The largest number of key=value pairs in a request's query string.
MaxParams == 2

(***************************************************************************)
(* Option and Result.                                                      *)
(***************************************************************************)
None == [some |-> FALSE]

Some(v) == [some |-> TRUE, v |-> v]

Ok(v) == [ok |-> TRUE, v |-> v]

Err(e) == [ok |-> FALSE, e |-> e]

(***************************************************************************)
(* u32: two limbs of 16 bits, value hi * 2^16 + lo.                        *)
(***************************************************************************)
LimbBase == 2 ^ 16

U32Of(n) == <<n \div LimbBase, n % LimbBase>>

U32Lt(a, b) == a[1] < b[1] \/ (a[1] = b[1] /\ a[2] < b[2])

U32Le(a, b) == a = b \/ U32Lt(a, b)

\* u32::checked_mul(10): None on overflow.
checked_mul10(r) ==
    LET lo10 == r[2] * 10
        hi10 == r[1] * 10 + (lo10 \div LimbBase)
    IN  IF hi10 >= LimbBase THEN None ELSE Some(<<hi10, lo10 % LimbBase>>)

\* u32::checked_add of one digit: None on overflow.
checked_add(r, d) ==
    LET lo == r[2] + d
        hi == r[1] + (lo \div LimbBase)
    IN  IF hi >= LimbBase THEN None ELSE Some(<<hi, lo % LimbBase>>)

DigitChars == <<"0", "1", "2", "3", "4", "5", "6", "7", "8", "9">>

\* char::to_digit(10): None when c is no decimal digit.
to_digit(c) ==
    IF \E i \in 1..10 : DigitChars[i] = c
    THEN Some((CHOOSE i \in 1..10 : DigitChars[i] = c) - 1)
    ELSE None

\* The digit loop of from_str_radix: multiply, add, stop at the first error.
RECURSIVE parse_digits(_, _)
parse_digits(digits, result) ==
    IF digits = <<>> THEN Ok(result)
    ELSE LET x == to_digit(Head(digits))
         IN  IF ~x.some THEN Err("InvalidDigit")
             ELSE LET m == checked_mul10(result)
                  IN  IF ~m.some THEN Err("PosOverflow")
                      ELSE LET a == checked_add(m.v, x.v)
                           IN  IF ~a.some THEN Err("PosOverflow")
                               ELSE parse_digits(Tail(digits), a.v)

\* str::parse::<u32>() / <u32 as FromStr>::from_str.
parse_u32(src) ==
    IF src = <<>> THEN Err("Empty")
    ELSE IF Len(src) = 1 /\ Head(src) \in {"+", "-"} THEN Err("InvalidDigit")
    ELSE IF Head(src) = "+" THEN parse_digits(Tail(src), U32Of(0))
    ELSE parse_digits(src, U32Of(0))

\* Display of a u32 ("{}" in format!): its decimal digits.
RECURSIVE fmt_u32(_)
fmt_u32(n) ==
    LET qh == n[1] \div 10
        t  == (n[1] % 10) * LimbBase + n[2]
        q  == <<qh, t \div 10>>
        r  == t % 10
    IN  IF q = <<0, 0>> THEN DigitChars[r + 1]
        ELSE fmt_u32(q) \o DigitChars[r + 1]

(***************************************************************************)
(* The catalog.                                                            *)
(***************************************************************************)
Language(name, year) == [name |-> name, year |-> U32Of(year)]

LANGUAGES ==
    << Language("FORTRAN", 1954),
       Language("LISP", 1958),
       Language("COBOL", 1959),
       Language("ALGOL 60", 1960),
       Language("Prolog", 1972),
       Language("ML", 1973) >>

LanguagesTemplate(headline, languages) ==
    [headline |-> headline, languages |-> languages]

IndexTemplate(name) == [name |-> name]

(***************************************************************************)
(* Requests and responses.  A query string is the sequence of its decoded  *)
(* key=value pairs, in the order they appear.                              *)
(***************************************************************************)
Chars(s) ==
    CASE s = ""           -> <<>>
      [] s = "0"          -> <<"0">>
      [] s = "1950"       -> <<"1", "9", "5", "0">>
      [] s = "1960"       -> <<"1", "9", "6", "0">>
      [] s = "1970"       -> <<"1", "9", "7", "0">>
      [] s = "1975"       -> <<"1", "9", "7", "5">>
      [] s = "x"          -> <<"x">>
      [] s = "-1"         -> <<"-", "1">>
      [] s = "4294967295" -> <<"4", "2", "9", "4", "9", "6", "7", "2", "9", "5">>
      [] s = "4294967296" -> <<"4", "2", "9", "4", "9", "6", "7", "2", "9", "6">>

\* The values a request may carry for a parameter.
RawValues ==
    { Chars(s) : s \in {"", "0", "1950", "1960", "1970", "1975", "x", "-1",
                        "4294967295", "4294967296"} }

Keys == {"year", "year_from_inclusive", "year_to_exclusive"}

Pair(k, v) == [k |-> k, v |-> v]

Pairs == { Pair(k, v) : k \in Keys, v \in RawValues }

Queries == UNION { [1..n -> Pairs] : n \in 0..MaxParams }

Request(route, path, query) == [route |-> route, path |-> path, query |-> query]

\* A handler returned a template, rendered with status 200.
Rendered(template) == [kind |-> "ok", template |-> template]

\* An extractor rejected the request: 400 Bad Request, the handler is not run.
Rejection == [kind |-> "bad_request"]

\* The handler's task panicked: no response is written.
Panicked(message) == [kind |-> "panic", message |-> message]

NoRequest == [route |-> "none"]

NoResponse == [kind |-> "none"]

Unit == [unit |-> TRUE]

(***************************************************************************)
(* Query decoding.                                                         *)
(***************************************************************************)
\* serde's HashMap<String, String>: every pair is inserted, the last wins.
RECURSIVE HashMap_from(_, _)
HashMap_from(pairs, map) ==
    IF pairs = <<>> THEN map
    ELSE LET p == Head(pairs)
         IN  HashMap_from(Tail(pairs),
                 [k \in DOMAIN map \cup {p.k} |-> IF k = p.k THEN p.v ELSE map[k]])

HashMap_get(map, k) == IF k \in DOMAIN map THEN Some(map[k]) ELSE None

\* Variant of the Option<u32> field decoder: an empty value read as None.
Option_u32_deserialize_lenient(value) ==
    IF value = <<>> THEN Ok(None)
    ELSE LET r == parse_u32(value)
         IN  IF r.ok THEN Ok(Some(r.v)) ELSE Err(r.e)

\* A present value decoded into an Option<u32> field: Some(parsed number).
Option_u32_deserialize(value) ==
    LET r == parse_u32(value)
    IN  IF r.ok THEN Ok(Some(r.v)) ELSE Err(r.e)

\* derive(Deserialize) of LanguagesFilter: fields in query order, a repeated
\* field is an error, another key is skipped, a missing Option field is None.
RECURSIVE LanguagesFilter_visit_map(_, _, _)
LanguagesFilter_visit_map(pairs, from, to) ==
    IF pairs = <<>>
    THEN Ok([year_from_inclusive |-> IF from.some THEN from.v ELSE None,
             year_to_exclusive   |-> IF to.some THEN to.v ELSE None])
    ELSE LET p == Head(pairs)
             r == Option_u32_deserialize(p.v)
         IN  CASE p.k = "year_from_inclusive" ->
                    IF from.some THEN Err("duplicate field")
                    ELSE IF ~r.ok THEN r
                    ELSE LanguagesFilter_visit_map(Tail(pairs), Some(r.v), to)
               [] p.k = "year_to_exclusive" ->
                    IF to.some THEN Err("duplicate field")
                    ELSE IF ~r.ok THEN r
                    ELSE LanguagesFilter_visit_map(Tail(pairs), from, Some(r.v))
               [] OTHER -> LanguagesFilter_visit_map(Tail(pairs), from, to)

\* Query::<LanguagesFilter>::try_from_uri
LanguagesFilter_deserialize(query) == LanguagesFilter_visit_map(query, None, None)

\* empty_string_as_none, opt being the Option<String> read from the value.
empty_string_as_none(opt) ==
    IF ~opt.some \/ opt.v = <<>> THEN Ok(None)
    ELSE LET r == parse_u32(opt.v)
         IN  IF r.ok THEN Ok(Some(r.v)) ELSE Err(r.e)

\* derive(Deserialize) of the decorated struct: as above, but a field with
\* deserialize_with and no default is an error when it is missing.
RECURSIVE Decorated_visit_map(_, _, _)
Decorated_visit_map(pairs, from, to) ==
    IF pairs = <<>>
    THEN IF ~from.some \/ ~to.some THEN Err("missing field")
         ELSE Ok([year_from_inclusive |-> from.v, year_to_exclusive |-> to.v])
    ELSE LET p == Head(pairs)
             r == empty_string_as_none(Some(p.v))
         IN  CASE p.k = "year_from_inclusive" ->
                    IF from.some THEN Err("duplicate field")
                    ELSE IF ~r.ok THEN r
                    ELSE Decorated_visit_map(Tail(pairs), Some(r.v), to)
               [] p.k = "year_to_exclusive" ->
                    IF to.some THEN Err("duplicate field")
                    ELSE IF ~r.ok THEN r
                    ELSE Decorated_visit_map(Tail(pairs), from, Some(r.v))
               [] OTHER -> Decorated_visit_map(Tail(pairs), from, to)

\* Query::<LanguagesFilterThatAcceptsEmptyQueryParameterValuesAsNone>::try_from_uri
Decorated_deserialize(query) == Decorated_visit_map(query, None, None)

(***************************************************************************)
(* Handlers: what each returns once its extractor has succeeded.           *)
(***************************************************************************)
index_template == IndexTemplate("world")

languages_template == LanguagesTemplate("Languages", LANGUAGES)

\* Variant of languages_from_year_path: every record up to the year.
languages_from_year_path_template_upto(year) ==
    LET matches == SelectSeq(LANGUAGES, LAMBDA l : U32Le(l.year, year))
        headline == "Languages from " \o fmt_u32(year)
    IN  LanguagesTemplate(headline, matches)

\* languages_from_year_path, given the year taken from the path.
languages_from_year_path_template(year) ==
    LET matches == SelectSeq(LANGUAGES, LAMBDA l : l.year = year)
        headline == "Languages from " \o fmt_u32(year)
    IN  LanguagesTemplate(headline, matches)

\* languages_from_year_query, given the decoded map: the two expect() calls
\* panic when the parameter is missing or is no number.
languages_from_year_query_result(params) ==
    LET got == HashMap_get(params, "year")
    IN  IF ~got.some THEN Panicked("expected query parameter years ")
        ELSE LET year == parse_u32(got.v)
             IN  IF ~year.ok THEN Panicked("expected a valid number for year")
                 ELSE LET matches == SelectSeq(LANGUAGES, LAMBDA l : l.year = year.v)
                          headline == "Languages from " \o fmt_u32(year.v)
                      IN  Rendered(LanguagesTemplate(headline, matches))

\* Variant of accepts: the lower bound taken as exclusive.
accepts_strict_from(self, language) ==
    LET year == language.year
        matches_from == IF self.year_from_inclusive.some
                        THEN U32Lt(self.year_from_inclusive.v, year) ELSE TRUE
        matches_to   == IF self.year_to_exclusive.some
                        THEN U32Lt(year, self.year_to_exclusive.v) ELSE TRUE
    IN  matches_from /\ matches_to

\* Variant of accepts: either bound is enough.
accepts_either(self, language) ==
    LET year == language.year
        matches_from == IF self.year_from_inclusive.some
                        THEN U32Le(self.year_from_inclusive.v, year) ELSE TRUE
        matches_to   == IF self.year_to_exclusive.some
                        THEN U32Lt(year, self.year_to_exclusive.v) ELSE TRUE
    IN  matches_from \/ matches_to

\* LanguagesFilter::accepts
accepts(self, language) ==
    LET year == language.year
        matches_from == IF self.year_from_inclusive.some
                        THEN U32Le(self.year_from_inclusive.v, year) ELSE TRUE
        matches_to   == IF self.year_to_exclusive.some
                        THEN U32Lt(year, self.year_to_exclusive.v) ELSE TRUE
    IN  matches_from /\ matches_to

\* Variant of the headline match: the two one-sided arms exchanged.
filter_headline_swapped(filter) ==
    LET from == filter.year_from_inclusive
        to   == filter.year_to_exclusive
    IN  CASE from.some /\ to.some ->
               "Languages from year " \o fmt_u32(from.v) \o " (inclusive) to "
                   \o fmt_u32(to.v) \o " (exclusive)"
          [] from.some /\ ~to.some ->
               "Languages before year " \o fmt_u32(from.v)
          [] ~from.some /\ to.some ->
               "Languages from year " \o fmt_u32(to.v) \o " and onwards"
          [] ~from.some /\ ~to.some ->
               "Languages from any year"

\* The headline match of languages_by_struct_query.
filter_headline(filter) ==
    LET from == filter.year_from_inclusive
        to   == filter.year_to_exclusive
    IN  CASE from.some /\ to.some ->
               "Languages from year " \o fmt_u32(from.v) \o " (inclusive) to "
                   \o fmt_u32(to.v) \o " (exclusive)"
          [] from.some /\ ~to.some ->
               "Languages from year " \o fmt_u32(from.v) \o " and onwards"
          [] ~from.some /\ to.some ->
               "Languages before year " \o fmt_u32(to.v)
          [] ~from.some /\ ~to.some ->
               "Languages from any year"

\* languages_by_struct_query, given the decoded filter.
languages_by_struct_query_template(filter) ==
    LET matches == SelectSeq(LANGUAGES, LAMBDA l : accepts(filter, l))
    IN  LanguagesTemplate(filter_headline(filter), matches)

\* Variant of the partition closure: 1970 itself counted as old.
is_old_inclusive(l) == U32Le(l.year, U32Of(1970))

\* The closure AppState::new partitions by.
is_old(l) == U32Lt(l.year, U32Of(1970))

\* Variant of AppState::new: the two sides bound the wrong way round.
AppState_new_swapped ==
    [old_languages |-> SelectSeq(LANGUAGES, LAMBDA l : ~U32Lt(l.year, U32Of(1970))),
     new_languages |-> SelectSeq(LANGUAGES, LAMBDA l : U32Lt(l.year, U32Of(1970)))]

\* AppState::new: Iterator::partition keeps the order on both sides.
AppState_new ==
    [old_languages |-> SelectSeq(LANGUAGES, is_old),
     new_languages |-> SelectSeq(LANGUAGES, LAMBDA l : ~is_old(l))]

(***************************************************************************)
(* The state machine: one action per route (extractor and handler), one    *)
(* per decoder for a direct call of try_from_uri, each taken when no       *)
(* request is being served, and one that delivers the outcome.             *)
(***************************************************************************)
Init ==
    /\ app_state = AppState_new
    /\ request = NoRequest
    /\ extracted = Unit
    /\ response = NoResponse

\* GET /
index ==
    /\ request = NoRequest
    /\ request' = Request("/", <<>>, <<>>)
    /\ extracted' = Unit
    /\ response' = Rendered(index_template)
    /\ UNCHANGED app_state

\* GET /languages/
languages ==
    /\ request = NoRequest
    /\ request' = Request("/languages/", <<>>, <<>>)
    /\ extracted' = Unit
    /\ response' = Rendered(languages_template)
    /\ UNCHANGED app_state

\* GET /languages/years/:year
languages_from_year_path ==
    /\ request = NoRequest
    /\ \E segment \in RawValues \ {<<>>} :
        LET year == parse_u32(segment)
        IN  /\ request' = Request("/languages/years/:year", segment, <<>>)
            /\ extracted' = year
            /\ response' = IF year.ok
                           THEN Rendered(languages_from_year_path_template(year.v))
                           ELSE Rejection
            /\ UNCHANGED app_state

\* GET /languages/year?...
languages_from_year_query ==
    /\ request = NoRequest
    /\ \E query \in Queries :
        LET params == HashMap_from(query, <<>>)
        IN  /\ request' = Request("/languages/year", <<>>, query)
            /\ extracted' = Ok(params)
            /\ response' = languages_from_year_query_result(params)
            /\ UNCHANGED app_state

\* GET /languages/filter?...
languages_by_struct_query ==
    /\ request = NoRequest
    /\ \E query \in Queries :
        LET filter == LanguagesFilter_deserialize(query)
        IN  /\ request' = Request("/languages/filter", <<>>, query)
            /\ extracted' = filter
            /\ response' = IF filter.ok
                           THEN Rendered(languages_by_struct_query_template(filter.v))
                           ELSE Rejection
            /\ UNCHANGED app_state

\* Variant of GET /stateful/old: the list is moved out of the shared state.
stateful_old_languages_takes ==
    /\ request = NoRequest
    /\ request' = Request("/stateful/old", <<>>, <<>>)
    /\ extracted' = Ok(app_state)
    /\ response' = Rendered(LanguagesTemplate("Old Languages", app_state.old_languages))
    /\ app_state' = [app_state EXCEPT !.old_languages = <<>>]

\* GET /stateful/old: the State extractor hands the handler a clone.
stateful_old_languages ==
    /\ request = NoRequest
    /\ request' = Request("/stateful/old", <<>>, <<>>)
    /\ extracted' = Ok(app_state)
    /\ response' = Rendered(LanguagesTemplate("Old Languages", app_state.old_languages))
    /\ UNCHANGED app_state

\* GET /stateful/new
stateful_new_languages ==
    /\ request = NoRequest
    /\ request' = Request("/stateful/new", <<>>, <<>>)
    /\ extracted' = Ok(app_state)
    /\ response' = Rendered(LanguagesTemplate("New Languages", app_state.new_languages))
    /\ UNCHANGED app_state

\* Query::<LanguagesFilter>::try_from_uri(&uri), outside any route.
try_from_uri_plain ==
    /\ request = NoRequest
    /\ \E query \in Queries :
        /\ request' = Request("try_from_uri plain", <<>>, query)
        /\ extracted' = LanguagesFilter_deserialize(query)
        /\ UNCHANGED <<app_state, response>>

\* Query::<LanguagesFilterThatAccepts...AsNone>::try_from_uri(&uri).
try_from_uri_decorated ==
    /\ request = NoRequest
    /\ \E query \in Queries :
        /\ request' = Request("try_from_uri decorated", <<>>, query)
        /\ extracted' = Decorated_deserialize(query)
        /\ UNCHANGED <<app_state, response>>

\* The outcome is delivered (the response written, the connection closed after
\* a panic, the decoded value dropped) and the next request can be taken.
complete ==
    /\ request # NoRequest
    /\ request' = NoRequest
    /\ extracted' = Unit
    /\ response' = NoResponse
    /\ UNCHANGED app_state

Next ==
    \/ index
    \/ languages
    \/ languages_from_year_path
    \/ languages_from_year_query
    \/ languages_by_struct_query
    \/ stateful_old_languages
    \/ stateful_new_languages
    \/ try_from_uri_plain
    \/ try_from_uri_decorated
    \/ complete

Spec == Init /\ [][Next]_vars

(***************************************************************************)
(* Vocabulary of the properties.                                           *)
(***************************************************************************)
BoundKeys == {"year_from_inclusive", "year_to_exclusive"}

Names(records) == [i \in 1..Len(records) |-> records[i].name]

\* The position of a catalog record in the catalog, 0 for any other record.
CatalogIndex(r) ==
    IF \E i \in 1..Len(LANGUAGES) : LANGUAGES[i] = r
    THEN CHOOSE i \in 1..Len(LANGUAGES) : LANGUAGES[i] = r
    ELSE 0

\* records holds catalog records only, in catalog order, none twice.
InCatalogOrder(records) ==
    /\ \A j \in 1..Len(records) : CatalogIndex(records[j]) > 0
    /\ \A j, k \in 1..Len(records) :
           j < k => CatalogIndex(records[j]) < CatalogIndex(records[k])

Occurs(r, records) == \E j \in 1..Len(records) : records[j] = r

\* records is exactly the catalog records at the positions wanted, in
\* catalog order.
ExactlyThose(records, wanted) ==
    /\ InCatalogOrder(records)
    /\ \A i \in 1..Len(LANGUAGES) : (i \in wanted) <=> Occurs(LANGUAGES[i], records)

\* The values the query gives for key k, in order.
ValuesOf(query, k) ==
    LET at == SelectSeq(query, LAMBDA p : p.k = k)
    IN  [i \in 1..Len(at) |-> at[i].v]

FilterServed == request.route = "/languages/filter" /\ response.kind = "ok"

FilterIs(from, to) ==
    extracted.v = [year_from_inclusive |-> from, year_to_exclusive |-> to]

\* The served range-filter result is exactly the records within the bounds of
\* the decoded filter, and is the whole catalog when both bounds are absent.
ByRangeExact ==
    FilterServed =>
        LET from == extracted.v.year_from_inclusive
            to == extracted.v.year_to_exclusive
            InRange(r) == /\ (~from.some \/ U32Le(from.v, r.year))
                          /\ (~to.some \/ U32Lt(r.year, to.v))
            result == response.template.languages
        IN  /\ ExactlyThose(result, {i \in 1..Len(LANGUAGES) : InRange(LANGUAGES[i])})
            /\ (~from.some /\ ~to.some) =>
                   /\ result = languages_template.languages
                   /\ Len(result) = 6

\* C1 (as amended): for every range filter, each bound independently absent
\* or any u32, the range route returns exactly the catalog records r with
\* (from absent or from <= r.year) and (to absent or r.year < to), in catalog
\* order; both bounds absent returns the whole catalog, and {1950, 1970}
\* returns exactly FORTRAN, LISP, COBOL, ALGOL 60.
C1_ByRangeReturnsRecordsInBounds ==
    /\ ByRangeExact
    /\ (FilterServed /\ FilterIs(Some(U32Of(1950)), Some(U32Of(1970)))) =>
           Names(response.template.languages)
               = <<"FORTRAN", "LISP", "COBOL", "ALGOL 60">>

\* C1 witness: the range 1950..1970 was served.
C1_Witness ==
    /\ FilterServed
    /\ FilterIs(Some(U32Of(1950)), Some(U32Of(1970)))
    /\ Len(response.template.languages) = 4

\* C1 as first stated: the same, but {1950, 1970} returns exactly FORTRAN,
\* LISP, COBOL.
C1_Original ==
    /\ ByRangeExact
    /\ (FilterServed /\ FilterIs(Some(U32Of(1950)), Some(U32Of(1970)))) =>
           Names(response.template.languages) = <<"FORTRAN", "LISP", "COBOL">>

\* C2: the partition of AppState::new is two subsequences of the catalog,
\* each in catalog order, disjoint, holding every catalog record exactly once
\* between them; every old record has year < 1970, every new one year >= 1970.
C2_PartitionSplitsCatalogAt1970 ==
    LET old == app_state.old_languages
        new == app_state.new_languages
    IN  /\ InCatalogOrder(old)
        /\ InCatalogOrder(new)
        /\ \A i \in 1..Len(LANGUAGES) :
               Occurs(LANGUAGES[i], old) # Occurs(LANGUAGES[i], new)
        /\ Len(old) + Len(new) = Len(LANGUAGES)
        /\ \A j \in 1..Len(old) : U32Lt(old[j].year, U32Of(1970))
        /\ \A j \in 1..Len(new) : U32Le(U32Of(1970), new[j].year)

\* C2 witness: both sides of the partition are served and neither is empty.
C2_Witness ==
    /\ request.route = "/stateful/new"
    /\ response.template.languages = app_state.new_languages
    /\ Len(app_state.new_languages) = 2
    /\ Len(app_state.old_languages) = 4

\* The year a served exact-year request asked for.
ServedYear ==
    IF request.route = "/languages/years/:year" THEN extracted.v
    ELSE parse_u32(extracted.v["year"]).v

YearServed ==
    /\ request.route \in {"/languages/years/:year", "/languages/year"}
    /\ response.kind = "ok"

\* The served exact-year result is exactly the records of the year asked for.
ByYearExact ==
    YearServed =>
        LET result == response.template.languages
        IN  /\ ExactlyThose(result,
                    {i \in 1..Len(LANGUAGES) : LANGUAGES[i].year = ServedYear})
            /\ (\A i \in 1..Len(LANGUAGES) : LANGUAGES[i].year # ServedYear)
                   => result = <<>>

\* raw is an integer written in decimal, with or without a minus sign.
IsDecimalInteger(raw) ==
    /\ raw # <<>>
    /\ LET digits == IF Head(raw) = "-" THEN Tail(raw) ELSE raw
       IN  /\ digits # <<>>
           /\ \A i \in 1..Len(digits) : to_digit(digits[i]).some

\* C3 (as amended): for every y that is a u32 (0..4294967295) the exact-year
\* routes (by path and by query) return exactly the catalog records whose
\* year is y, in catalog order; the result holds every record of that year,
\* and is the empty sequence, served as a normal result, when no record has
\* that year; a path segment that is no u32 is rejected as a bad request.
C3_ByYearReturnsRecordsOfThatYear ==
    /\ ByYearExact
    /\ request.route = "/languages/years/:year" =>
           response.kind = IF parse_u32(request.path).ok THEN "ok" ELSE "bad_request"
    /\ (/\ request.route = "/languages/year"
        /\ LET years == ValuesOf(request.query, "year")
           IN  years # <<>> /\ parse_u32(years[Len(years)]).ok)
           => response.kind = "ok"

\* C3 witness: the year of a catalog record was asked for by path and that
\* record was returned.
C3_Witness ==
    /\ request.route = "/languages/years/:year"
    /\ response.kind = "ok"
    /\ extracted.v = U32Of(1960)
    /\ Names(response.template.languages) = <<"ALGOL 60">>

FilterRequested == request.route = "/languages/filter"

\* C3 as first stated: every integer y is a valid input, served with exactly
\* the records of that year, the empty sequence when there is none.
C3_Original ==
    /\ ByYearExact
    /\ (request.route = "/languages/years/:year" /\ IsDecimalInteger(request.path))
           => response.kind = "ok"

\* C4 (as amended): on the range-filter route a bound whose parameter is
\* absent is treated as not provided (never as zero): a query without both
\* parameters is served with both bounds absent, and a served request has a
\* bound absent exactly when its parameter is absent; a parameter present
\* with an empty value is a decoding error, and the request is rejected as a
\* bad request without the handler being run.
C4_AbsentIsNoneAndEmptyIsRejected ==
    FilterRequested =>
        /\ (\A k \in BoundKeys : ValuesOf(request.query, k) = <<>>) =>
               /\ response.kind = "ok"
               /\ FilterIs(None, None)
        /\ response.kind = "ok" =>
               \A k \in BoundKeys :
                   (ValuesOf(request.query, k) = <<>>) <=> (extracted.v[k] = None)
        /\ (\E k \in BoundKeys : Occurs(<<>>, ValuesOf(request.query, k))) =>
               /\ ~extracted.ok
               /\ response = Rejection

\* C4 witness: a range-filter request with an empty lower bound and no upper
\* bound was rejected.
C4_Witness ==
    /\ FilterRequested
    /\ ValuesOf(request.query, "year_from_inclusive") = <<Chars("")>>
    /\ ValuesOf(request.query, "year_to_exclusive") = <<>>
    /\ response.kind = "bad_request"

\* C4 as first stated: when each bound parameter is absent or present with an
\* empty value, the request is served with that bound absent from the filter.
C4_Original ==
    (/\ FilterRequested
     /\ \A k \in BoundKeys : ValuesOf(request.query, k) \in {<<>>, <<Chars("")>>})
        => /\ response.kind = "ok"
           /\ FilterIs(None, None)

\* C5: a request to /languages/year without the year parameter, or with a
\* year that is no u32, is rejected as a bad request and the handler never
\* panics.
C5_MissingOrInvalidYearIsRejected ==
    (/\ request.route = "/languages/year"
     /\ LET years == ValuesOf(request.query, "year")
        IN  \/ years = <<>>
            \/ ~parse_u32(years[Len(years)]).ok)
        => response.kind = "bad_request"

C7_InvertedRangeIsEmpty ==
    (/\ FilterRequested
     /\ extracted.ok
     /\ extracted.v.year_from_inclusive.some
     /\ extracted.v.year_to_exclusive.some
     /\ U32Le(extracted.v.year_to_exclusive.v, extracted.v.year_from_inclusive.v))
        => /\ response.kind = "ok"
           /\ response.template.languages = <<>>

\* C7 witness: the range from 1975 to 1970 was served.
C7_Witness ==
    /\ FilterServed
    /\ FilterIs(Some(U32Of(1975)), Some(U32Of(1970)))
    /\ response.template.languages = <<>>

\* C8: the headline of a range-filter response is decided by which bounds are
\* present and by their values alone: both, "Languages from year {from}
\* (inclusive) to {to} (exclusive)"; the lower only, "Languages from year
\* {from} and onwards"; the upper only, "Languages before year {to}";
\* neither, "Languages from any year"; exactly one of the four applies.
C8_HeadlineFollowsBoundsPresent ==
    FilterServed =>
        LET from == extracted.v.year_from_inclusive
            to == extracted.v.year_to_exclusive
            headline == response.template.headline
            both == "Languages from year " \o fmt_u32(from.v) \o " (inclusive) to "
                        \o fmt_u32(to.v) \o " (exclusive)"
            lower == "Languages from year " \o fmt_u32(from.v) \o " and onwards"
            upper == "Languages before year " \o fmt_u32(to.v)
            neither == "Languages from any year"
        IN  /\ (from.some /\ to.some) => headline = both
            /\ (from.some /\ ~to.some) => headline = lower
            /\ (~from.some /\ to.some) => headline = upper
            /\ (~from.some /\ ~to.some) => headline = neither
            /\ FilterIs(Some(U32Of(1950)), Some(U32Of(1970))) =>
                   headline = "Languages from year 1950 (inclusive) to 1970 (exclusive)"
            /\ FilterIs(Some(U32Of(1960)), None) =>
                   headline = "Languages from year 1960 and onwards"
            /\ FilterIs(None, Some(U32Of(1975))) =>
                   headline = "Languages before year 1975"

\* C8 witness: the range 1950..1970 was served under its headline.
C8_Witness ==
    /\ FilterServed
    /\ FilterIs(Some(U32Of(1950)), Some(U32Of(1970)))
    /\ response.template.headline
           = "Languages from year 1950 (inclusive) to 1970 (exclusive)"

\* C9: the plain and the decorated decoder give the same pair of bounds for
\* every query in which each bound parameter is absent or a valid number,
\* and differ only where a parameter is present with an empty value.
C9_DecodersAgreeUnlessEmpty ==
    request.route \in {"try_from_uri plain", "try_from_uri decorated"} =>
        LET plain == LanguagesFilter_deserialize(request.query)
            decorated == Decorated_deserialize(request.query)
            AbsentOrNumber(k) ==
                LET values == ValuesOf(request.query, k)
                IN  values = <<>> \/ (Len(values) = 1 /\ parse_u32(values[1]).ok)
        IN  /\ (\A k \in BoundKeys : AbsentOrNumber(k)) =>
                   /\ plain.ok
                   /\ decorated = plain
            /\ plain # decorated =>
                   \E k \in BoundKeys : Occurs(<<>>, ValuesOf(request.query, k))

\* C10: the partition agrees with the range filter at 1970: the old side is
\* the range with only to = 1970, the new side the range with only
\* from = 1970, and a record of the year 1970 goes to the new side.
C10_PartitionAgreesWithRangeAt1970 ==
    LET of1970 == Language("of 1970", 1970)
        before == [year_from_inclusive |-> None,
                   year_to_exclusive |-> Some(U32Of(1970))]
        onwards == [year_from_inclusive |-> Some(U32Of(1970)),
                    year_to_exclusive |-> None]
    IN  /\ (FilterServed /\ extracted.v = before) =>
               response.template.languages = app_state.old_languages
        /\ (FilterServed /\ extracted.v = onwards) =>
               response.template.languages = app_state.new_languages
        /\ ~is_old(of1970)
        /\ ~accepts(before, of1970)
        /\ accepts(onwards, of1970)

\* C10 witness: the range with only to = 1970 was served and is the old side.
C10_Witness ==
    /\ FilterServed
    /\ FilterIs(None, Some(U32Of(1970)))
    /\ response.template.languages = app_state.old_languages
    /\ Len(app_state.old_languages) = 4

====
